---- MODULE Spec2Model ----
(***************************************************************************)
(* Titanic Data App (src/app.py): the lazily loaded table cache (get_df,   *)
(* _load, _clean) under the concurrent request handlers of the web server, *)
(* and the read-only query layer over the cached table (by_class, by_port, *)
(* by_age_group, heatmap, passengers).                                     *)
(*                                                                         *)
(* Representation.  A cell of a table is a record: Null (NaN / pd.NA),     *)
(* Str(s) with s a sequence of one-character strings, Num(v) a float64     *)
(* held as a fixed-point integer v = value * Scale, I64(v) an Int64.       *)
(* A row is a record of cells, a table a sequence of rows (the frame's     *)
(* positional order).  Columns of the source that are treated exactly like *)
(* a modelled one (SibSp, Parch, Age_wiki, Boarded, Hometown, Destination, *)
(* Lifeboat) are left out; every modelled column is present in every table.*)
(***************************************************************************)
EXTENDS Integers, Sequences, FiniteSets, TLC

VARIABLES
    cfg,        \* KBC_URL, KBC_TOKEN, TABLE_ID as read at import time
    dirExists,  \* os.path.isdir(DATA_DIR/in/tables)
    files,      \* names of the entries of that directory
    heap,       \* the DataFrame objects: heap[o] = [rows, src, stage]
    cache,      \* the global _cache: 0 for None, else an object of heap
    pc,         \* per request thread: where it is inside get_df
    loc,        \* per request thread: the frame local to _load/_clean (0: none)
    ret,        \* per request thread: what get_df returned (0: nothing yet)
    err,        \* per request thread: the exception get_df raised ("" : none)
    late,       \* history: the call started after some call had returned a table
    firstRet,   \* history: the first table any get_df call returned (0: none)
    df,         \* query layer: the table get_df hands to the queries
                \* (normalizer alone: the frame pd.read_csv hands to _clean)
    res         \* query layer: the latest query, its parameters and its result

cacheVars == <<cfg, dirExists, files, heap, cache, pc, loc, ret, err, late,
               firstRet>>
queryVars == <<df, res>>
vars == <<cfg, dirExists, files, heap, cache, pc, loc, ret, err, late,
          firstRet, df, res>>

(***************************************************************************)
(* Bounds of the model.                                                    *)
(***************************************************************************)
NThreads == 2

Threads == 1..NThreads
ObjIds  == 1..NThreads

(***************************************************************************)
(* Cells and strings.                                                      *)
(***************************************************************************)
Scale == 10 * 10 * 10

Null   == [k |-> "null"]
Str(s) == [k |-> "str", s |-> s]
Num(v) == [k |-> "num", v |-> v]
I64(v) == [k |-> "int", v |-> v]

notna(c) == c.k # "null"

DigitVal == [c \in {"0", "1", "2", "3", "4", "5", "6", "7", "8", "9"} |->
               CASE c = "0" -> 0 [] c = "1" -> 1 [] c = "2" -> 2 [] c = "3" -> 3
                 [] c = "4" -> 4 [] c = "5" -> 5 [] c = "6" -> 6 [] c = "7" -> 7
                 [] c = "8" -> 8 [] c = "9" -> 9]

IsDigits(s) == s # <<>> /\ \A i \in 1..Len(s) : s[i] \in DOMAIN DigitVal

RECURSIVE DigitsValue(_)
DigitsValue(s) ==
    IF s = <<>> THEN 0
    ELSE 10 * DigitsValue(SubSeq(s, 1, Len(s) - 1)) + DigitVal[s[Len(s)]]

RECURSIVE Pow10(_)
Pow10(n) == IF n = 0 THEN 1 ELSE 10 * Pow10(n - 1)

\* str.strip(): leading and trailing blanks removed
RECURSIVE LStrip(_)
LStrip(s) == IF s # <<>> /\ s[1] = " " THEN LStrip(Tail(s)) ELSE s

RECURSIVE RStrip(_)
RStrip(s) ==
    IF s # <<>> /\ s[Len(s)] = " " THEN RStrip(SubSeq(s, 1, Len(s) - 1)) ELSE s

Strip(s) == RStrip(LStrip(s))

\* str.lower() on the letters the model's strings use
LowerChar(c) ==
    CASE c = "M" -> "m" [] c = "F" -> "f" [] c = "A" -> "a" [] c = "L" -> "l"
      [] c = "E" -> "e" [] c = "S" -> "s" [] c = "C" -> "c" [] c = "Q" -> "q"
      [] c = "B" -> "b" [] c = "O" -> "o"
      [] OTHER -> c

Lower(s) == [i \in 1..Len(s) |-> LowerChar(s[i])]

(***************************************************************************)
(* _clean, block by block.  Each block rewrites columns of the frame in    *)
(* place.                                                                  *)
(***************************************************************************)
\* pd.to_numeric(errors="coerce") on one cell: a decimal literal with at
\* most three fraction digits parses, anything else becomes NaN.
DotAt(s) == {i \in 1..Len(s) : s[i] = "."}

to_numeric(c) ==
    IF c.k # "str" THEN c
    ELSE LET s == c.s IN
         IF IsDigits(s) THEN Num(DigitsValue(s) * Scale)
         ELSE IF /\ Cardinality(DotAt(s)) = 1
                 /\ LET d == CHOOSE i \in DotAt(s) : TRUE IN
                      /\ IsDigits(SubSeq(s, 1, d - 1))
                      /\ IsDigits(SubSeq(s, d + 1, Len(s)))
                      /\ Len(s) - d <= 3
              THEN LET d  == CHOOSE i \in DotAt(s) : TRUE
                       fr == SubSeq(s, d + 1, Len(s))
                   IN  Num(DigitsValue(SubSeq(s, 1, d - 1)) * Scale
                           + DigitsValue(fr) * Pow10(3 - Len(fr)))
              ELSE Null

\* astype("Int64") on one cell; a fractional value cannot be cast
CastFails(c) == c.k = "num" /\ c.v % Scale # 0

to_Int64(c) == IF c.k = "num" THEN I64(c.v \div Scale) ELSE c

\* the port remap of one cell
port_map(s) ==
    CASE s = <<"S">> -> <<"S", "o", "u", "t", "h", "a", "m", "p", "t", "o", "n">>
      [] s = <<"C">> -> <<"C", "h", "e", "r", "b", "o", "u", "r", "g">>
      [] s = <<"Q">> -> <<"Q", "u", "e", "e", "n", "s", "t", "o", "w", "n">>
      [] OTHER -> <<>>

InPortMap(s) == s \in {<<"S">>, <<"C">>, <<"Q">>}

\* the remap with the value looked up as it is, blanks included
RemapPortExact(c) ==
    IF notna(c)
    THEN (IF c.k = "str" /\ InPortMap(c.s) THEN Str(port_map(c.s)) ELSE c)
    ELSE c

\* lambda x: port_map.get(str(x).strip(), x) if pd.notna(x) else x
RemapPort(c) ==
    IF notna(c)
    THEN (IF c.k = "str" /\ InPortMap(Strip(c.s)) THEN Str(port_map(Strip(c.s))) ELSE c)
    ELSE c

\* .str.strip().str.lower() on one cell
CleanSex(c) == IF c.k = "str" THEN Str(Lower(Strip(c.s))) ELSE c

NumericCols(r) ==
    [r EXCEPT !.PassengerId = to_numeric(@), !.Survived = to_numeric(@),
              !.Pclass = to_numeric(@), !.Age = to_numeric(@),
              !.Fare = to_numeric(@)]

IntCols(r) ==
    [r EXCEPT !.PassengerId = to_Int64(@), !.Survived = to_Int64(@),
              !.Pclass = to_Int64(@)]

IntColsFail(rows) ==
    \E i \in 1..Len(rows) :
        CastFails(rows[i].PassengerId) \/ CastFails(rows[i].Survived)
            \/ CastFails(rows[i].Pclass)

CleanSteps == 4

CleanBlock(n, rows) ==
    [i \in 1..Len(rows) |->
        CASE n = 1 -> NumericCols(rows[i])
          [] n = 2 -> IntCols(rows[i])
          [] n = 3 -> [rows[i] EXCEPT !.Embarked = RemapPort(@)]
          [] n = 4 -> [rows[i] EXCEPT !.Sex = CleanSex(@)]]

CleanBlockFails(n, rows) == n = 2 /\ IntColsFail(rows)

_clean(rows) == CleanBlock(4, CleanBlock(3, CleanBlock(2, CleanBlock(1, rows))))

(***************************************************************************)
(* The environment: the input directory and the remote table.              *)
(***************************************************************************)
\* code points of the characters of the modelled file names
Ord == [c \in {".", "a", "b", "c", "s", "t", "v", "x"} |->
          CASE c = "." -> 46 [] c = "a" -> 97 [] c = "b" -> 98 [] c = "c" -> 99
            [] c = "s" -> 115 [] c = "t" -> 116 [] c = "v" -> 118 [] c = "x" -> 120]

\* the order of the first letters of the port names
CharLess(c, d) ==
    LET rank == [x \in {" ", "C", "Q", "S"} |->
                    CASE x = " " -> 32 [] x = "C" -> 67 [] x = "Q" -> 81 [] x = "S" -> 83]
    IN  rank[c] < rank[d]

a_csv  == <<"a", ".", "c", "s", "v">>
ab_csv == <<"a", "b", ".", "c", "s", "v">>
a_txt  == <<"a", ".", "t", "x", "t">>

FileNames == {a_csv, ab_csv, a_txt}

Row(id, surv, cls, age, fare, sex, port, name) ==
    [PassengerId |-> id, Survived |-> surv, Pclass |-> cls, Age |-> age,
     Fare |-> fare, Sex |-> sex, Embarked |-> port, Name |-> name]

\* what pd.read_csv yields for the files of the input mapping (text cells,
\* empty cells as NaN)
RawOf(src) ==
    IF src = a_csv
    THEN << Row(Str(<<"1">>), Str(<<"1">>), Str(<<"1">>), Str(<<"2", "2">>),
                Str(<<"7", ".", "2", "5">>), Str(<<" ", "M", "a", "l", "e">>),
                Str(<<"S">>), Str(<<"A">>)),
            Row(Str(<<"2">>), Str(<<"x">>), Str(<<"3">>), Null,
                Str(<<"8", ".", "0", "5">>), Str(<<"f", "e", "m", "a", "l", "e">>),
                Str(<<" ", "C">>), Str(<<"B">>)) >>
    ELSE << Row(Str(<<"7">>), Str(<<"0">>), Str(<<"2">>), Str(<<"6", "0">>),
                Str(<<"1", "3">>), Str(<<"F", "E", "M", "A", "L", "E", " ">>),
                Null, Str(<<"D">>)) >>

\* what the export of the remote table may hold: whole class numbers, or a
\* fractional one that astype("Int64") rejects
RemoteKinds == {"whole", "fractional"}

RemoteRaw(kind) ==
    << Row(Str(<<"9">>), Str(<<"1">>),
           IF kind = "whole" THEN Str(<<"3">>) ELSE Str(<<"1", ".", "5">>),
           Str(<<"0", ".", "5">>), Str(<<"x">>), Str(<<"m", "a", "l", "e">>),
           Str(<<"Q", "x">>), Str(<<"E">>)) >>

Remote == <<"r", "e", "m", "o", "t", "e">>

(***************************************************************************)
(* _load: the choice of the source.                                        *)
(***************************************************************************)
endswith(s, suf) ==
    Len(s) >= Len(suf) /\ SubSeq(s, Len(s) - Len(suf) + 1, Len(s)) = suf

dot_csv == <<".", "c", "s", "v">>

\* Python's order on str: by code point, a proper prefix first
RECURSIVE LexLess(_, _)
LexLess(s, t) ==
    IF t = <<>> THEN FALSE
    ELSE IF s = <<>> THEN TRUE
    ELSE IF Ord[s[1]] # Ord[t[1]] THEN Ord[s[1]] < Ord[t[1]]
    ELSE LexLess(Tail(s), Tail(t))

RECURSIVE Sorted(_)
Sorted(S) ==
    IF S = {} THEN <<>>
    ELSE LET m == CHOOSE x \in S : \A y \in S \ {x} : LexLess(x, y)
         IN  <<m>> \o Sorted(S \ {m})

\* csv_files without the test of the extension
csv_files_any(isdir, names) == IF isdir THEN Sorted(names) ELSE <<>>

\* sorted(f for f in listdir(tables_dir) if f.endswith(".csv")) if isdir else []
csv_files(isdir, names) ==
    IF isdir THEN Sorted({f \in names : endswith(f, dot_csv)}) ELSE <<>>

\* which branch _load takes: the first csv file, the Storage API, or the raise
LoadPlan(isdir, names, c) ==
    LET cs == csv_files(isdir, names) IN
    IF cs # <<>> THEN [via |-> "local", src |-> cs[1]]
    ELSE IF c.KBC_TOKEN # "" /\ c.TABLE_ID # "" THEN [via |-> "remote", src |-> Remote]
    ELSE [via |-> "raise", src |-> <<>>]

(***************************************************************************)
(* get_df and _load, one step per access to shared state.  The request     *)
(* handlers are plain functions, which the server runs on worker threads,  *)
(* so calls of get_df interleave.                                          *)
(***************************************************************************)
Free == [rows |-> <<>>, src |-> <<>>, stage |-> -1]

\* the frames _load has returned so far (a returned frame is never dropped)
produced == {o \in ObjIds : heap[o].stage = CleanSteps}

\* The identity of the frame read by thread t.  A thread holds at most one
\* frame at a time: the frame of a failed _clean is dropped before the thread
\* can load again, and once its load has succeeded _cache is never None
\* again, so the thread never reaches _load again.
NewObj(t) == t

NoQuery == [op |-> "none"]

\* get_df, line 28: the test of _cache
Check(t) ==
    /\ pc[t] = "idle"
    /\ pc' = [pc EXCEPT ![t] = IF cache # 0 THEN "hit" ELSE "load"]
    /\ late' = [late EXCEPT ![t] = firstRet # 0]
    /\ UNCHANGED <<cfg, dirExists, files, heap, cache, loc, ret, err, firstRet, df, res>>

\* get_df, lines 29 and 31: return _cache reads the global again
Return(t) ==
    /\ pc[t] = "hit"
    /\ ret' = [ret EXCEPT ![t] = cache]
    /\ firstRet' = IF firstRet = 0 THEN cache ELSE firstRet
    /\ pc' = [pc EXCEPT ![t] = "done"]
    /\ UNCHANGED <<cfg, dirExists, files, heap, cache, loc, err, late, df, res>>

\* LoadLocal with the frame published before it is cleaned
\* (_cache = pd.read_csv(...); _clean(_cache))
LoadLocalPublishesRaw(t) ==
    LET plan == LoadPlan(dirExists, files, cfg) IN
    /\ pc[t] = "load"
    /\ plan.via = "local"
    /\ heap' = [heap EXCEPT ![NewObj(t)] =
                   [rows |-> RawOf(plan.src), src |-> plan.src, stage |-> 0]]
    /\ loc' = [loc EXCEPT ![t] = NewObj(t)]
    /\ cache' = NewObj(t)
    /\ pc' = [pc EXCEPT ![t] = "clean"]
    /\ UNCHANGED <<cfg, dirExists, files, ret, err, late, firstRet, df, res>>

\* _load, lines 35-40: the first csv file of the input mapping is read
LoadLocal(t) ==
    LET plan == LoadPlan(dirExists, files, cfg) IN
    /\ pc[t] = "load"
    /\ plan.via = "local"
    /\ heap' = [heap EXCEPT ![NewObj(t)] =
                   [rows |-> RawOf(plan.src), src |-> plan.src, stage |-> 0]]
    /\ loc' = [loc EXCEPT ![t] = NewObj(t)]
    /\ pc' = [pc EXCEPT ![t] = "clean"]
    /\ UNCHANGED <<cfg, dirExists, files, cache, ret, err, late, firstRet, df, res>>

\* _load, lines 42-46: the export from the Storage API arrives
LoadRemote(t) ==
    LET plan == LoadPlan(dirExists, files, cfg) IN
    /\ pc[t] = "load"
    /\ plan.via = "remote"
    /\ cfg.KBC_URL # ""
    /\ \E kind \in RemoteKinds :
           heap' = [heap EXCEPT ![NewObj(t)] =
                       [rows |-> RemoteRaw(kind), src |-> Remote, stage |-> 0]]
    /\ loc' = [loc EXCEPT ![t] = NewObj(t)]
    /\ pc' = [pc EXCEPT ![t] = "clean"]
    /\ UNCHANGED <<cfg, dirExists, files, cache, ret, err, late, firstRet, df, res>>

\* _load, line 45: the export fails (no endpoint, network, rejected token)
LoadRemoteFails(t) ==
    LET plan == LoadPlan(dirExists, files, cfg) IN
    /\ pc[t] = "load"
    /\ plan.via = "remote"
    /\ err' = [err EXCEPT ![t] = "ExportError"]
    /\ pc' = [pc EXCEPT ![t] = "failed"]
    /\ UNCHANGED <<cfg, dirExists, files, heap, cache, loc, ret, late, firstRet, df, res>>

\* _load, line 47: no source at all
LoadNoData(t) ==
    LET plan == LoadPlan(dirExists, files, cfg) IN
    /\ pc[t] = "load"
    /\ plan.via = "raise"
    /\ err' = [err EXCEPT ![t] = "FileNotFoundError"]
    /\ pc' = [pc EXCEPT ![t] = "failed"]
    /\ UNCHANGED <<cfg, dirExists, files, heap, cache, loc, ret, late, firstRet, df, res>>

\* _clean, lines 50-62: the next block rewrites its columns of the frame in
\* place; after the last block _clean and _load return the frame
CleanStep(t) ==
    LET o == loc[t]
        n == heap[o].stage + 1
    IN  /\ pc[t] = "clean"
        /\ ~CleanBlockFails(n, heap[o].rows)
        /\ heap' = [heap EXCEPT ![o].rows = CleanBlock(n, @), ![o].stage = n]
        /\ pc' = [pc EXCEPT ![t] = IF n = CleanSteps THEN "assign" ELSE "clean"]
        /\ UNCHANGED <<cfg, dirExists, files, cache, loc, ret, err, late, firstRet, df, res>>

\* _clean, line 55: astype("Int64") raises on a fractional value; the frame
\* is dropped with the exception
CleanRaises(t) ==
    LET o == loc[t]
        n == heap[o].stage + 1
    IN  /\ pc[t] = "clean"
        /\ CleanBlockFails(n, heap[o].rows)
        /\ heap' = [heap EXCEPT ![o] = Free]
        /\ loc' = [loc EXCEPT ![t] = 0]
        /\ err' = [err EXCEPT ![t] = "TypeError"]
        /\ pc' = [pc EXCEPT ![t] = "failed"]
        /\ UNCHANGED <<cfg, dirExists, files, cache, ret, late, firstRet, df, res>>

\* get_df, line 30: _cache = <what _load returned>
Assign(t) ==
    /\ pc[t] = "assign"
    /\ cache' = loc[t]
    /\ loc' = [loc EXCEPT ![t] = 0]
    /\ pc' = [pc EXCEPT ![t] = "hit"]
    /\ UNCHANGED <<cfg, dirExists, files, heap, ret, err, late, firstRet, df, res>>

\* the request ends (with a response or with the exception); the worker
\* thread is free for the next request
Finish(t) ==
    /\ pc[t] \in {"done", "failed"}
    /\ pc' = [pc EXCEPT ![t] = "idle"]
    /\ ret' = [ret EXCEPT ![t] = 0]
    /\ err' = [err EXCEPT ![t] = ""]
    /\ late' = [late EXCEPT ![t] = FALSE]
    /\ UNCHANGED <<cfg, dirExists, files, heap, cache, loc, firstRet, df, res>>

\* the input directory changes under the running process
AddFile(f) ==
    /\ dirExists /\ f \notin files
    /\ files' = files \cup {f}
    /\ UNCHANGED <<cfg, dirExists, heap, cache, pc, loc, ret, err, late, firstRet, df, res>>

RemoveFile(f) ==
    /\ f \in files
    /\ files' = files \ {f}
    /\ UNCHANGED <<cfg, dirExists, heap, cache, pc, loc, ret, err, late, firstRet, df, res>>

MakeDir ==
    /\ ~dirExists
    /\ dirExists' = TRUE
    /\ UNCHANGED <<cfg, files, heap, cache, pc, loc, ret, err, late, firstRet, df, res>>

RemoveDir ==
    /\ dirExists /\ files = {}
    /\ dirExists' = FALSE
    /\ UNCHANGED <<cfg, files, heap, cache, pc, loc, ret, err, late, firstRet, df, res>>

Configs == [KBC_URL : {"", "https://connection.keboola.com"},
            KBC_TOKEN : {"", "token"},
            TABLE_ID : {"", "in.c-main.titanic"}]

InitWith(configs, names) ==
    /\ cfg \in configs
    /\ dirExists \in BOOLEAN
    /\ files \in SUBSET names
    /\ (~dirExists => files = {})
    /\ heap = [o \in ObjIds |-> Free]
    /\ cache = 0
    /\ pc = [t \in Threads |-> "idle"]
    /\ loc = [t \in Threads |-> 0]
    /\ ret = [t \in Threads |-> 0]
    /\ err = [t \in Threads |-> ""]
    /\ late = [t \in Threads |-> FALSE]
    /\ firstRet = 0
    /\ df = <<>>
    /\ res = NoQuery

\* The process under concurrent requests: the input mapping holds csv files
\* only and comes and goes as a whole; the Storage API is either fully
\* configured or not configured at all.
CsvNames == {f \in FileNames : endswith(f, dot_csv)}

Init ==
    /\ InitWith({c \in Configs : (c.KBC_URL = "") = (c.KBC_TOKEN = "")
                                   /\ (c.KBC_TOKEN = "") = (c.TABLE_ID = "")},
                CsvNames)
    /\ dirExists

Next ==
    \/ \E t \in Threads : Check(t)
    \/ \E t \in Threads : Return(t)
    \/ \E t \in Threads : LoadLocal(t)
    \/ \E t \in Threads : LoadRemote(t)
    \/ \E t \in Threads : LoadRemoteFails(t)
    \/ \E t \in Threads : LoadNoData(t)
    \/ \E t \in Threads : CleanStep(t)
    \/ \E t \in Threads : CleanRaises(t)
    \/ \E t \in Threads : Assign(t)
    \/ \E t \in Threads : Finish(t)
    \/ \E f \in CsvNames : AddFile(f)
    \/ \E f \in CsvNames : RemoveFile(f)

Spec == Init /\ [][Next]_vars

\* The loader alone: one request at a time, under every configuration and
\* every state of the input directory.
InitLoad == InitWith(Configs, FileNames)

NextLoad ==
    \/ Check(1)
    \/ Return(1)
    \/ LoadLocal(1)
    \/ LoadRemote(1)
    \/ LoadRemoteFails(1)
    \/ LoadNoData(1)
    \/ CleanStep(1)
    \/ CleanRaises(1)
    \/ Assign(1)
    \/ Finish(1)
    \/ \E f \in FileNames : AddFile(f)
    \/ \E f \in FileNames : RemoveFile(f)
    \/ MakeDir
    \/ RemoveDir

SpecLoad == InitLoad /\ [][NextLoad]_vars

(***************************************************************************)
(* The query layer.  Every query is a function of the table get_df returns *)
(* and of the request's parameters.  A query result is a record; error is  *)
(* TRUE when the handler raises instead of returning.                      *)
(***************************************************************************)
Indices(t)  == 1..Len(t)

\* the positions ix that lie in the set S, in the order of ix
RECURSIVE Keep(_, _)
Keep(ix, S) ==
    IF ix = <<>> THEN <<>>
    ELSE (IF ix[1] \in S THEN <<ix[1]>> ELSE <<>>) \o Keep(Tail(ix), S)

\* the positions of table t that lie in the set S, in the table's order
Select(t, S) == Keep([i \in 1..Len(t) |-> i], S)

RECURSIVE SumSeq(_)
SumSeq(s) == IF s = <<>> THEN 0 ELSE s[1] + SumSeq(Tail(s))

\* Python's round(num / den) for num >= 0, den > 0: to the nearest integer,
\* a tie to the even one
RoundHalfEven(num, den) ==
    LET q == num \div den
        r == num % den
    IN  IF 2 * r < den THEN q
        ELSE IF 2 * r > den THEN q + 1
        ELSE IF q % 2 = 0 THEN q ELSE q + 1

\* math.ceil(a / b) for a >= 0, b > 0
Ceil(a, b) == (a + b - 1) \div b

Max(a, b) == IF a >= b THEN a ELSE b
Min(a, b) == IF a <= b THEN a ELSE b

\* int(col.sum()) of an Int64 column over the rows at positions ix: NA skipped
SumSurvived(t, ix) ==
    SumSeq([j \in 1..Len(ix) |->
               IF notna(t[ix[j]].Survived) THEN t[ix[j]].Survived.v ELSE 0])

\* col.mean() of Survived over the rows at positions ix is sum / count of the
\* non-NA values, and pd.NA when there is none
CountSurvived(t, ix) ==
    Cardinality({j \in 1..Len(ix) : notna(t[ix[j]].Survived)})

\* round(sub["Survived"].mean() * 100): round(pd.NA) raises TypeError
MeanPctFails(t, ix) == CountSurvived(t, ix) = 0

MeanPct(t, ix) == RoundHalfEven(100 * SumSurvived(t, ix), CountSurvived(t, ix))

(***************************************************************************)
(* by_class                                                                *)
(***************************************************************************)
ClassLabels == <<"1st Class", "2nd Class", "3rd Class">>

ClassRows(t, cls) ==
    Select(t, {i \in Indices(t) : t[i].Pclass.k = "int" /\ t[i].Pclass.v = cls})

ClassEntry(t, cls) ==
    LET sub == ClassRows(t, cls) IN
    IF Len(sub) > 0
    THEN << [class |-> cls, label |-> ClassLabels[cls], total |-> Len(sub),
             survived |-> SumSurvived(t, sub), pct |-> MeanPct(t, sub)] >>
    ELSE <<>>

by_class(t) ==
    IF \E cls \in 1..3 : Len(ClassRows(t, cls)) > 0 /\ MeanPctFails(t, ClassRows(t, cls))
    THEN [error |-> TRUE, out |-> <<>>]
    ELSE [error |-> FALSE,
          out |-> ClassEntry(t, 1) \o ClassEntry(t, 2) \o ClassEntry(t, 3)]

(***************************************************************************)
(* by_port                                                                 *)
(***************************************************************************)
\* pd.notna(p) and str(p).strip()
PortShown(c) == c.k = "str" /\ Strip(c.s) # <<>>

PortKeys(t) == {t[i].Embarked : i \in {j \in Indices(t) : PortShown(t[j].Embarked)}}

PortCount(t, p) == Cardinality({i \in Indices(t) : t[i].Embarked = p})

\* the percentage taken of the rows that have a port
PortEntryOfShown(t, p) ==
    [port |-> p.s, count |-> PortCount(t, p),
     pct |-> RoundHalfEven(100 * PortCount(t, p),
                           Cardinality({i \in Indices(t) : PortShown(t[i].Embarked)}))]

PortEntry(t, p) ==
    [port |-> p.s, count |-> PortCount(t, p),
     pct |-> RoundHalfEven(100 * PortCount(t, p), Len(t))]

\* ascending order of the group keys (groupby sorts them)
KeyLess(p, q) ==
    \E n \in 1..(Min(Len(p.s), Len(q.s)) + 1) :
        /\ \A m \in 1..(n - 1) : p.s[m] = q.s[m]
        /\ \/ n > Len(p.s) /\ n <= Len(q.s)
           \/ /\ n <= Len(p.s) /\ n <= Len(q.s)
              /\ p.s[n] # q.s[n]
              /\ CharLess(p.s[n], q.s[n])

\* sorted(out, key=-count): descending count, a stable sort of the groups
\* that groupby yields in key order
RECURSIVE PortOrder(_, _)
PortOrder(t, K) ==
    IF K = {} THEN <<>>
    ELSE LET p == CHOOSE x \in K :
                    \A y \in K \ {x} :
                        \/ PortCount(t, x) > PortCount(t, y)
                        \/ PortCount(t, x) = PortCount(t, y) /\ KeyLess(x, y)
         IN  <<PortEntry(t, p)>> \o PortOrder(t, K \ {p})

by_port(t) == [error |-> FALSE, out |-> PortOrder(t, PortKeys(t))]

(***************************************************************************)
(* by_age_group                                                            *)
(***************************************************************************)
bins == <<0, 12, 18, 35, 60, 120>>

labels == <<"Child (0-12)", "Teen (13-18)", "Young Adult (19-35)",
            "Adult (36-60)", "Senior (61+)">>

\* pd.cut with right=False: the interval [bins[b], bins[b+1])
cut_right_open(age) ==
    LET hit == {b \in 1..Len(labels) :
                   bins[b] * Scale <= age.v /\ age.v < bins[b + 1] * Scale}
    IN  IF hit = {} THEN 0 ELSE CHOOSE b \in hit : TRUE

\* pd.cut(age, bins, labels): the interval (bins[b], bins[b+1]] that holds
\* the age, 0 (NaN) when none does
cut(age) ==
    LET hit == {b \in 1..Len(labels) :
                   bins[b] * Scale < age.v /\ age.v <= bins[b + 1] * Scale}
    IN  IF hit = {} THEN 0 ELSE CHOOSE b \in hit : TRUE

\* d2 = df.dropna(subset=["Age"]): the positions kept
AgeRows(t) == Select(t, {i \in Indices(t) : notna(t[i].Age)})

GroupRows(t, b) ==
    Select(t, {i \in Indices(t) : notna(t[i].Age) /\ cut(t[i].Age) = b})

GroupEntry(t, b) ==
    LET sub == GroupRows(t, b) IN
    IF Len(sub) > 0
    THEN << [group |-> labels[b], total |-> Len(sub),
             survived |-> SumSurvived(t, sub), pct |-> MeanPct(t, sub)] >>
    ELSE <<>>

RECURSIVE GroupEntries(_, _)
GroupEntries(t, b) ==
    IF b > Len(labels) THEN <<>> ELSE GroupEntry(t, b) \o GroupEntries(t, b + 1)

\* grp is the column d2["grp"], row by row of d2
by_age_group(t) ==
    LET d2  == AgeRows(t)
        grp == [j \in 1..Len(d2) |-> cut(t[d2[j]].Age)]
    IN  IF \E b \in 1..Len(labels) :
              Len(GroupRows(t, b)) > 0 /\ MeanPctFails(t, GroupRows(t, b))
        THEN [error |-> TRUE, d2 |-> d2, grp |-> grp, out |-> <<>>]
        ELSE [error |-> FALSE, d2 |-> d2, grp |-> grp, out |-> GroupEntries(t, 1)]

\* by_age_group without the copy: d2 is the cached frame itself and the
\* column is assigned to it
AssignGrpToCached(t) ==
    LET g == [i \in Indices(t) |->
                 t[i] @@ [c \in {"grp"} |-> IF notna(t[i].Age) THEN cut(t[i].Age) ELSE 0]]
    IN  [cached |-> g, d2 |-> g]

\* lines 139-140: d2 is a frame of its own (dropna, then copy) that holds the
\* rows with an age; the column grp is assigned to d2.  cached is the frame
\* get_df returned as the two statements leave it.
AssignGrp(t) ==
    LET ix == AgeRows(t) IN
    [cached |-> t,
     d2 |-> [j \in 1..Len(ix) |-> t[ix[j]] @@ [c \in {"grp"} |-> cut(t[ix[j]].Age)]]]

(***************************************************************************)
(* by_gender and health                                                    *)
(***************************************************************************)
SexLabels == << [sex |-> <<"f", "e", "m", "a", "l", "e">>, label |-> "Female"],
                [sex |-> <<"m", "a", "l", "e">>, label |-> "Male"] >>

GenderEntry(t, g) ==
    LET sub == Select(t, {i \in Indices(t) : t[i].Sex = Str(SexLabels[g].sex)})
        sv  == SumSurvived(t, sub)
    IN  IF Len(sub) > 0
        THEN << [sex |-> SexLabels[g].sex, label |-> SexLabels[g].label,
                 survived |-> sv, lost |-> Len(sub) - sv] >>
        ELSE <<>>

by_gender(t) == [error |-> FALSE, out |-> GenderEntry(t, 1) \o GenderEntry(t, 2)]

\* health: e is the exception get_df raised ("" when it returned the frame t)
health(e, t, c) ==
    IF e = "" THEN [status |-> "ok", rows |-> Len(t)]
    ELSE [status |-> "error", error |-> e, kbc_token_set |-> c.KBC_TOKEN # "",
          table_id |-> IF c.TABLE_ID # "" THEN c.TABLE_ID ELSE "(not set)"]

(***************************************************************************)
(* Sorting a column: sort_values(col, ascending, na_position="last").      *)
(* The rows without a value keep their order and go last; the others are   *)
(* argsorted, for a descending sort on the reversed rows with the result   *)
(* reversed again.  argsort is the stable one: rows with equal keys keep   *)
(* their order.                                                            *)
(***************************************************************************)
Reverse(s) == [j \in 1..Len(s) |-> s[Len(s) + 1 - j]]

\* ix with position i inserted after the last entry whose key is <= key[i]
RECURSIVE Insert(_, _, _)
Insert(ix, i, key) ==
    IF ix = <<>> THEN <<i>>
    ELSE IF key[ix[Len(ix)]] <= key[i] THEN Append(ix, i)
    ELSE Append(Insert(SubSeq(ix, 1, Len(ix) - 1), i, key), ix[Len(ix)])

RECURSIVE Argsort(_, _)
Argsort(ix, key) ==
    IF ix = <<>> THEN <<>>
    ELSE Insert(Argsort(SubSeq(ix, 1, Len(ix) - 1), key), ix[Len(ix)], key)

\* a descending sort as the ascending one read backwards: the rows without
\* a value come first
sort_values_reversed(t, ix, col, ascending) ==
    LET key     == [i \in Indices(t) |-> IF notna(t[i][col]) THEN t[i][col].v ELSE 0]
        non_nan == Keep(ix, {i \in Indices(t) : notna(t[i][col])})
        nan     == Keep(ix, {i \in Indices(t) : ~notna(t[i][col])})
    IN  IF ascending THEN Argsort(non_nan, key) \o nan
        ELSE Reverse(Argsort(non_nan, key) \o nan)

sort_values(t, ix, col, ascending) ==
    LET key     == [i \in Indices(t) |-> IF notna(t[i][col]) THEN t[i][col].v ELSE 0]
        non_nan == Keep(ix, {i \in Indices(t) : notna(t[i][col])})
        nan     == Keep(ix, {i \in Indices(t) : ~notna(t[i][col])})
    IN  IF ascending THEN Argsort(non_nan, key) \o nan
        ELSE Reverse(Argsort(Reverse(non_nan), key)) \o nan

\* round(float(x), 2) of a fixed-point value
Round2(v) == (Scale \div 100) * RoundHalfEven(v, Scale \div 100)

(***************************************************************************)
(* heatmap                                                                 *)
(***************************************************************************)
HeatmapLimit == 500

HeatmapPoint(r) ==
    [fare |-> Round2(r.Fare.v),
     survived |-> IF notna(r.Survived) THEN r.Survived ELSE Null,
     class |-> IF notna(r.Pclass) THEN r.Pclass ELSE Null]

\* [int(i*len(hm)/n) for i in range(n)], zero-based, empty for n <= 0
SampleAt(len, n) == [j \in 1..Max(n, 0) |-> ((j - 1) * len) \div n]

\* heatmap without the downsampling
heatmap_all(t, n) ==
    LET hm == sort_values(t, Select(t, {i \in Indices(t) : notna(t[i].Fare)}), "Fare", TRUE)
    IN  [error |-> FALSE, out |-> [j \in 1..Len(hm) |-> HeatmapPoint(t[hm[j]])]]

heatmap(t, n) ==
    LET hm == sort_values(t, Select(t, {i \in Indices(t) : notna(t[i].Fare)}), "Fare", TRUE)
        sl == IF Len(hm) > n
              THEN [j \in 1..Max(n, 0) |-> hm[SampleAt(Len(hm), n)[j] + 1]]
              ELSE hm
    IN  [error |-> FALSE, out |-> [j \in 1..Len(sl) |-> HeatmapPoint(t[sl[j]])]]

(***************************************************************************)
(* passengers                                                              *)
(***************************************************************************)
PerPageLimit == 200

Columns == {"PassengerId", "Survived", "Pclass", "Age", "Fare", "Sex", "Embarked",
            "Name"}

\* int(cls) of the class filter; any other text raises ValueError
ClsInt == [c \in {"1", "2", "3"} |-> CASE c = "1" -> 1 [] c = "2" -> 2 [] c = "3" -> 3]

\* str.contains takes the query as a regular expression: an unbalanced
\* parenthesis does not compile
RegexFails(q) == \E i \in 1..Len(q) : q[i] = "("

Contains(s, sub) ==
    \E i \in 1..(Len(s) - Len(sub) + 1) : SubSeq(s, i, i + Len(sub) - 1) = sub

\* df[c].str.lower().str.contains(ql, na=False) over the text columns
TextMatches(r, ql) == r.Name.k = "str" /\ Contains(Lower(r.Name.s), ql)

Mask(t, q, survived, cls) ==
    {i \in Indices(t) :
        /\ q # <<>> => TextMatches(t[i], Lower(q))
        /\ survived = "survived" => t[i].Survived = I64(1)
        /\ survived = "lost" => t[i].Survived = I64(0)
        /\ cls # "all" => t[i].Pclass = I64(ClsInt[cls])}

_nan(c) == IF notna(c) THEN c ELSE Null

\* one row of the response
Display(r) ==
    [id |-> r.PassengerId, name |-> r.Name, sex |-> r.Sex, age |-> _nan(r.Age),
     cls |-> _nan(r.Pclass), boarded |-> _nan(r.Embarked),
     fare |-> IF notna(r.Fare) THEN Num(Round2(r.Fare.v)) ELSE Null,
     survived |-> IF notna(r.Survived) THEN r.Survived ELSE Null]

\* tp = max(1, math.ceil(total / per_page))
TotalPages(total, per_page) == Max(1, Ceil(total, per_page))

\* the page without the clamp
RequestedPage(page, tp) == page

\* page = min(page, tp)
ClampPage(page, tp) == Min(page, tp)

\* the slice starting one row early
PageSliceFromPrevious(sorted, pg, per_page) ==
    SubSeq(sorted, Max(1, (pg - 1) * per_page), Min(pg * per_page, Len(sorted)))

\* filtered.iloc[(page-1)*per_page : page*per_page]
PageSlice(sorted, pg, per_page) ==
    SubSeq(sorted, (pg - 1) * per_page + 1, Min(pg * per_page, Len(sorted)))

Failed == [error |-> TRUE, total |-> 0, page |-> 0, per_page |-> 0,
           total_pages |-> 0, idx |-> <<>>, rows |-> <<>>]

\* idx holds the index labels of the slice sl, rows the response rows
passengers(t, q, survived, cls, page, per_page, sort_by, sort_dir) ==
    IF \/ q # <<>> /\ RegexFails(Lower(q))
       \/ cls # "all" /\ cls \notin DOMAIN ClsInt
    THEN Failed
    ELSE LET filtered == Select(t, Mask(t, q, survived, cls))
             sorted   == IF sort_by \in Columns
                         THEN sort_values(t, filtered, sort_by, sort_dir = "asc")
                         ELSE filtered
             total    == Len(sorted)
             tp       == TotalPages(total, per_page)
             pg       == ClampPage(page, tp)
             sl       == PageSlice(sorted, pg, per_page)
         IN  [error |-> FALSE, total |-> total, page |-> pg, per_page |-> per_page,
              total_pages |-> tp, idx |-> sl,
              rows |-> [j \in 1..Len(sl) |-> Display(t[sl[j]])]]

(***************************************************************************)
(* stats                                                                   *)
(***************************************************************************)
\* the values of a float column that are not NaN, as a sequence
ColValues(t, col) ==
    LET ix == Select(t, {i \in Indices(t) : notna(t[i][col])})
    IN  [j \in 1..Len(ix) |-> t[ix[j]][col].v]

\* round(x, 1) of the fixed-point quotient num / den
Round1(num, den) == (Scale \div 10) * RoundHalfEven(num, den * (Scale \div 10))

\* _nan(round(df[col].mean(), nd)): the mean of no value is NaN, which
\* round leaves NaN and _nan turns into None
MeanRounded(t, col, nd) ==
    LET vs == ColValues(t, col) IN
    IF vs = <<>> THEN Null
    ELSE IF nd = 1 THEN Num(Round1(SumSeq(vs), Len(vs)))
    ELSE Num((Scale \div 100) * RoundHalfEven(SumSeq(vs), Len(vs) * (Scale \div 100)))

\* _nan(round(df[col].max(), 2))
MaxRounded(t, col) ==
    LET vs == ColValues(t, col) IN
    IF vs = <<>> THEN Null
    ELSE Num(Round2(CHOOSE v \in {vs[j] : j \in 1..Len(vs)} :
                        \A j \in 1..Len(vs) : vs[j] <= v))

\* the rate without the test of total: the division raises on an empty table
SurvRateUnguarded(surv, total) ==
    IF total = 0 THEN [error |-> TRUE, v |-> 0]
    ELSE [error |-> FALSE, v |-> Round1(100 * Scale * surv, total)]

\* round(surv / total * 100, 1) if total else 0
SurvRate(surv, total) ==
    IF total # 0 THEN [error |-> FALSE, v |-> Round1(100 * Scale * surv, total)]
    ELSE [error |-> FALSE, v |-> 0]

\* lost as the number of rows known to be lost
LostCounted(t, total, surv) ==
    Cardinality({i \in Indices(t) : t[i].Survived = I64(0)})

\* "lost": total - surv
Lost(t, total, surv) == total - surv

stats(t) ==
    LET total == Len(t)
        surv  == SumSurvived(t, Select(t, Indices(t)))
        rate  == SurvRate(surv, total)
    IN  [error |-> rate.error, total |-> total, survivors |-> surv,
         lost |-> Lost(t, total, surv), surv_rate |-> rate.v,
         avg_age |-> MeanRounded(t, "Age", 1),
         avg_fare |-> MeanRounded(t, "Fare", 2),
         max_fare |-> MaxRounded(t, "Fare")]

(***************************************************************************)
(* The tables the queries are applied to: normalized tables (what _clean   *)
(* returns), drawn from three families; ids are the row positions.         *)
(***************************************************************************)
MaxRows     == 3
MaxPortRows == 6
MaxAgeRows  == 2
MaxPerPage  == 2

Text(i) ==
    CASE i = 1 -> Str(<<"A", "l">>) [] i = 2 -> Str(<<"B", "o">>)
      [] i = 3 -> Null [] OTHER -> Str(<<"a", "b">>)

Male == Str(<<"m", "a", "l", "e">>)

\* class, survived and fare vary together
Kinds ==
    { [Pclass |-> I64(1), Survived |-> I64(1), Fare |-> Num(7250)],
      [Pclass |-> I64(1), Survived |-> I64(0), Fare |-> Null],
      [Pclass |-> I64(2), Survived |-> I64(1), Fare |-> Num(7250)],
      [Pclass |-> I64(3), Survived |-> I64(1), Fare |-> Num(13000)],
      [Pclass |-> I64(3), Survived |-> Null,   Fare |-> Num(7254)],
      [Pclass |-> Null,   Survived |-> I64(0), Fare |-> Null] }

GeneralTables ==
    UNION { { [i \in 1..n |-> Row(I64(i), f[i].Survived, f[i].Pclass, Null,
                                  f[i].Fare, Male, Null, Text(i))] :
              f \in [1..n -> Kinds] } : n \in 0..MaxRows }

\* the boarding ports after normalization: the three cities, a blank, NaN
Ports ==
    << Str(<<"C", "h", "e", "r", "b", "o", "u", "r", "g">>),
       Str(<<"Q", "u", "e", "e", "n", "s", "t", "o", "w", "n">>),
       Str(<<"S", "o", "u", "t", "h", "a", "m", "p", "t", "o", "n">>),
       Str(<<" ">>),
       Null >>

\* tables that differ in how many passengers boarded where
PortTables ==
    UNION { { [i \in 1..n |-> Row(I64(i), I64(1), I64(1), Null, Null, Male,
                                  Ports[f[i]], Text(i))] :
              f \in {g \in [1..n -> 1..Len(Ports)] :
                        \A i \in 1..n : \A j \in i..n : g[i] <= g[j]} } :
            n \in 0..MaxPortRows }

\* ages around the edges of the bins, in years, and a fractional one
AgeYears == <<0, 1, 12, 13, 18, 19, 35, 36, 60, 61, 120, 121>>

AgeKinds ==
    [y \in 1..Len(AgeYears) |-> [Age |-> Num(AgeYears[y] * Scale), Survived |-> I64(1)]]
        \o << [Age |-> Num(12500), Survived |-> I64(0)],
               [Age |-> Null, Survived |-> I64(1)],
               [Age |-> Num(30 * Scale), Survived |-> Null],
               [Age |-> Num(70 * Scale), Survived |-> Null] >>

\* tables that differ in which ages occur how often
AgeTables ==
    UNION { { [i \in 1..n |-> Row(I64(i), AgeKinds[f[i]].Survived, I64(2),
                                  AgeKinds[f[i]].Age, Null, Male, Null, Text(i))] :
              f \in {g \in [1..n -> 1..Len(AgeKinds)] :
                        \A i \in 1..n : \A j \in i..n : g[i] <= g[j]} } :
            n \in 0..MaxAgeRows }

Tables == GeneralTables \cup PortTables \cup AgeTables

(***************************************************************************)
(* The requests.  Each handler takes the table from get_df and answers     *)
(* from it; the table itself is not written.  Parameters outside the       *)
(* declared ranges are rejected before the handler runs.  The listing is   *)
(* applied to the tables of the general family.                            *)
(***************************************************************************)
Stats ==
    /\ res = NoQuery
    /\ res' = [op |-> "stats", out |-> stats(df)]
    /\ UNCHANGED <<cfg, dirExists, files, heap, cache, pc, loc, ret, err, late,
                   firstRet, df>>

ByClass ==
    /\ res = NoQuery
    /\ res' = [op |-> "by_class", out |-> by_class(df)]
    /\ UNCHANGED <<cfg, dirExists, files, heap, cache, pc, loc, ret, err, late,
                   firstRet, df>>

ByPort ==
    /\ res = NoQuery
    /\ res' = [op |-> "by_port", out |-> by_port(df)]
    /\ UNCHANGED <<cfg, dirExists, files, heap, cache, pc, loc, ret, err, late,
                   firstRet, df>>

ByGender ==
    /\ res = NoQuery
    /\ res' = [op |-> "by_gender", out |-> by_gender(df)]
    /\ UNCHANGED <<cfg, dirExists, files, heap, cache, pc, loc, ret, err, late,
                   firstRet, df>>

\* the one handler that assigns to a frame: the assignment of grp
ByAgeGroup ==
    /\ res = NoQuery
    /\ res' = [op |-> "by_age_group", out |-> by_age_group(df)]
    /\ df' = AssignGrp(df).cached
    /\ UNCHANGED <<cfg, dirExists, files, heap, cache, pc, loc, ret, err, late,
                   firstRet>>

\* health with the table loaded
Health ==
    /\ res = NoQuery
    /\ res' = [op |-> "health", out |-> health("", df, cfg)]
    /\ UNCHANGED <<cfg, dirExists, files, heap, cache, pc, loc, ret, err, late,
                   firstRet, df>>

HeatmapNs == (-1..(MaxRows + 1)) \cup {HeatmapLimit, HeatmapLimit + 1}

Heatmap ==
    /\ res = NoQuery
    /\ \E n \in HeatmapNs :
          /\ n <= HeatmapLimit
          /\ res' = [op |-> "heatmap", n |-> n, out |-> heatmap(df, n)]
    /\ UNCHANGED <<cfg, dirExists, files, heap, cache, pc, loc, ret, err, late,
                   firstRet, df>>

Queries    == {<<>>, <<"B">>}
Survivals  == {"all", "survived", "lost"}
Classes    == {"all", "3"}
SortFields == {"PassengerId", "Pclass", "Fare", "nosuch"}
SortDirs   == {"asc", "desc"}
Sorts      == {<<"PassengerId", "asc">>, <<"Pclass", "desc">>, <<"Fare", "asc">>,
               <<"nosuch", "asc">>}
Pages      == 0..MaxRows
PerPages   == (0..MaxPerPage) \cup {PerPageLimit, PerPageLimit + 1}

\* one request for one page, its filters well-formed
Passengers ==
    /\ res = NoQuery
    /\ df \in GeneralTables
    /\ \E q \in Queries, survived \in Survivals, cls \in Classes,
          page \in Pages, per_page \in PerPages, sort \in Sorts :
          /\ page >= 1
          /\ per_page >= 1 /\ per_page <= PerPageLimit
          /\ res' = [op |-> "passengers", page |-> page, per_page |-> per_page,
                     out |-> passengers(df, q, survived, cls, page, per_page,
                                        sort[1], sort[2])]
    /\ UNCHANGED <<cfg, dirExists, files, heap, cache, pc, loc, ret, err, late,
                   firstRet, df>>

\* one request whose text query is no regular expression or whose class
\* filter is no number
PassengersMalformed ==
    /\ res = NoQuery
    /\ df \in GeneralTables
    /\ \E f \in {<< <<"(">>, "all" >>, << <<>>, "x" >>, << <<"B">>, "x" >>} :
          res' = [op |-> "passengers_malformed", q |-> f[1], cls |-> f[2],
                  out |-> passengers(df, f[1], "all", f[2], 1, 1,
                                     "PassengerId", "asc")]
    /\ UNCHANGED <<cfg, dirExists, files, heap, cache, pc, loc, ret, err, late,
                   firstRet, df>>

\* a client pages through one listing: page 1, then every further page up to
\* the total_pages the first response reports, with the same other parameters
PageThrough ==
    /\ res = NoQuery
    /\ df \in GeneralTables
    /\ \E q \in Queries, survived \in Survivals, cls \in Classes,
          per_page \in PerPages, sort_by \in SortFields, sort_dir \in SortDirs :
          LET first == passengers(df, q, survived, cls, 1, per_page, sort_by,
                                  sort_dir)
          IN  /\ per_page >= 1 /\ per_page <= PerPageLimit
              /\ res' = [op |-> "pages", per_page |-> per_page,
                         sort_by |-> sort_by, sort_dir |-> sort_dir,
                         filtered |-> Mask(df, q, survived, cls),
                         out |-> [p \in 1..first.total_pages |->
                                     passengers(df, q, survived, cls, p, per_page,
                                                sort_by, sort_dir)]]
    /\ UNCHANGED <<cfg, dirExists, files, heap, cache, pc, loc, ret, err, late,
                   firstRet, df>>

\* the response is sent; the next request may come
Respond ==
    /\ res # NoQuery
    /\ res' = NoQuery
    /\ UNCHANGED <<cfg, dirExists, files, heap, cache, pc, loc, ret, err, late,
                   firstRet, df>>

InitQ ==
    /\ df \in Tables
    /\ res = NoQuery
    /\ cfg = [KBC_URL |-> "https://connection.keboola.com", KBC_TOKEN |-> "",
              TABLE_ID |-> ""]
    /\ dirExists = TRUE
    /\ files = {a_csv}
    /\ heap = [o \in ObjIds |-> Free]
    /\ cache = 0
    /\ pc = [t \in Threads |-> "idle"]
    /\ loc = [t \in Threads |-> 0]
    /\ ret = [t \in Threads |-> 0]
    /\ err = [t \in Threads |-> ""]
    /\ late = [t \in Threads |-> FALSE]
    /\ firstRet = 0

NextQ ==
    \/ Health
    \/ Stats
    \/ ByClass
    \/ ByGender
    \/ ByPort
    \/ ByAgeGroup
    \/ Heatmap
    \/ Passengers
    \/ PassengersMalformed
    \/ PageThrough
    \/ Respond

SpecQ == InitQ /\ [][NextQ]_vars

(***************************************************************************)
(* The normalizer alone: _clean applied to frames that differ in their     *)
(* boarding-port column.                                                   *)
(***************************************************************************)
MaxRawRows == 2

Southampton == <<"S", "o", "u", "t", "h", "a", "m", "p", "t", "o", "n">>

\* raw port cells: the three codes, a code with blanks around it, a full
\* name bare and with a blank, other text, a blank, the empty cell (NaN)
RawPorts ==
    << Str(<<"S">>), Str(<<"C">>), Str(<<"Q">>), Str(<<" ", "S">>),
       Str(<<"Q", " ">>), Str(Southampton), Str(Southampton \o <<" ">>),
       Str(<<"s">>), Str(<<"Q", "x">>), Str(<<" ">>), Null >>

RawTables ==
    UNION { { [i \in 1..n |-> Row(Str(<<"1">>), Str(<<"0">>), Str(<<"3">>),
                                  Str(<<"4", "0">>), Str(<<"8", ".", "0", "5">>),
                                  Str(<<"M", "a", "l", "e", " ">>),
                                  RawPorts[f[i]], Str(<<"A">>))] :
              f \in [1..n -> 1..Len(RawPorts)] } : n \in 0..MaxRawRows }

\* _clean, lines 56-59: the port remap of the whole column
RemapPorts(rows) == CleanBlock(3, rows)

\* _clean on the frame read from the source
Clean ==
    /\ res = NoQuery
    /\ ~IntColsFail(CleanBlock(1, df))
    /\ res' = [op |-> "clean", out |-> _clean(df)]
    /\ UNCHANGED <<cfg, dirExists, files, heap, cache, pc, loc, ret, err, late,
                   firstRet, df>>

\* the port remap applied to the frame _clean returned
RemapAgain ==
    /\ res.op = "clean"
    /\ res' = [op |-> "remap_again", before |-> res.out, out |-> RemapPorts(res.out)]
    /\ UNCHANGED <<cfg, dirExists, files, heap, cache, pc, loc, ret, err, late,
                   firstRet, df>>

InitClean ==
    /\ df \in RawTables
    /\ res = NoQuery
    /\ cfg = [KBC_URL |-> "https://connection.keboola.com", KBC_TOKEN |-> "",
              TABLE_ID |-> ""]
    /\ dirExists = TRUE
    /\ files = {a_csv}
    /\ heap = [o \in ObjIds |-> Free]
    /\ cache = 0
    /\ pc = [t \in Threads |-> "idle"]
    /\ loc = [t \in Threads |-> 0]
    /\ ret = [t \in Threads |-> 0]
    /\ err = [t \in Threads |-> ""]
    /\ late = [t \in Threads |-> FALSE]
    /\ firstRet = 0

NextClean ==
    \/ Clean
    \/ RemapAgain
    \/ Respond

SpecClean == InitClean /\ [][NextClean]_vars

(***************************************************************************)
(* The listing over the table cache: requests for the passenger listing    *)
(* with its default parameters, served by the racing worker threads, on an *)
(* input mapping that may gain a file.  res keeps the latest response.     *)
(***************************************************************************)
\* the defaults of the parameters of passengers
DefaultPerPage == 50

\* passengers, line 166 onwards: the handler has its frame from get_df,
\* answers from it and returns
List(t) ==
    /\ pc[t] = "done"
    /\ res' = [op |-> "listing",
               out |-> passengers(heap[ret[t]].rows, <<>>, "all", "all", 1,
                                  DefaultPerPage, "PassengerId", "asc")]
    /\ pc' = [pc EXCEPT ![t] = "idle"]
    /\ ret' = [ret EXCEPT ![t] = 0]
    /\ late' = [late EXCEPT ![t] = FALSE]
    /\ UNCHANGED <<cfg, dirExists, files, heap, cache, loc, err, firstRet, df>>

InitList ==
    /\ InitWith({c \in Configs : c.KBC_TOKEN = "" /\ c.TABLE_ID = "" /\ c.KBC_URL # ""},
                CsvNames)
    /\ dirExists

NextList ==
    \/ \E t \in Threads : Check(t)
    \/ \E t \in Threads : Return(t)
    \/ \E t \in Threads : LoadLocal(t)
    \/ \E t \in Threads : LoadNoData(t)
    \/ \E t \in Threads : CleanStep(t)
    \/ \E t \in Threads : Assign(t)
    \/ \E t \in Threads : Finish(t)
    \/ \E t \in Threads : List(t)
    \/ \E f \in CsvNames : AddFile(f)

SpecList == InitList /\ [][NextList]_vars

(***************************************************************************)
(* health over the table cache: the handler catches what get_df raises.    *)
(***************************************************************************)
\* health, lines 79-84: get_df has returned the frame or raised, and the
\* handler answers either way
HealthResponds(t) ==
    /\ pc[t] \in {"done", "failed"}
    /\ res' = [op |-> "health",
               out |-> IF pc[t] = "done" THEN health("", heap[ret[t]].rows, cfg)
                       ELSE health(err[t], <<>>, cfg)]
    /\ pc' = [pc EXCEPT ![t] = "idle"]
    /\ ret' = [ret EXCEPT ![t] = 0]
    /\ err' = [err EXCEPT ![t] = ""]
    /\ late' = [late EXCEPT ![t] = FALSE]
    /\ UNCHANGED <<cfg, dirExists, files, heap, cache, loc, firstRet, df>>

NextHealth ==
    \/ Next
    \/ \E t \in Threads : HealthResponds(t)

SpecHealth == Init /\ [][NextHealth]_vars

(***************************************************************************)
(* Properties of the table cache and the loader.                           *)
(***************************************************************************)
Complete(o) ==
    /\ o # 0
    /\ heap[o].stage = CleanSteps
    /\ heap[o].rows = _clean(IF heap[o].src = Remote THEN RemoteRaw("whole")
                             ELSE RawOf(heap[o].src))

\* C1: single-flight load.  However the first calls of get_df interleave, at
\* most one load-and-normalize sequence runs to its end: _load never returns
\* a second frame.
SingleFlight == Cardinality(produced) <= 1

\* C2: memoization.  A get_df call that starts after some call has returned a
\* table never runs _load and returns the table the first call returned, with
\* the same rows, whatever happened to the input directory in between.
Memoized ==
    \A t \in Threads :
        late[t] =>
            /\ pc[t] \in {"hit", "done"}
            /\ (pc[t] = "done" => /\ ret[t] # 0
                                  /\ heap[ret[t]].rows = heap[firstRet].rows)

\* C3: all-or-nothing table.  In every state, whatever loads are in flight or
\* have failed, a table handed out by get_df and the table in _cache are the
\* complete normalized frame of their source, all blocks of _clean applied;
\* a call that raised handed out no table.
AllOrNothing ==
    /\ cache # 0 => Complete(cache)
    /\ \A t \in Threads :
          /\ ret[t] # 0 => Complete(ret[t])
          /\ pc[t] = "done" => ret[t] # 0
          /\ pc[t] = "failed" => ret[t] = 0 /\ err[t] # ""

\* C3, witness: one caller holds the table it got while another caller's
\* frame is between two blocks of _clean, and a third load may have failed.
AllOrNothingWitness ==
    \E t, u \in Threads :
        /\ pc[t] = "done" /\ ret[t] # 0
        /\ pc[u] = "clean" /\ heap[loc[u]].stage \in 1..(CleanSteps - 1)
        /\ heap[loc[u]].rows # _clean(RawOf(heap[loc[u]].src))

\* a run of _load by thread t reaches its outcome in this step
LoadStep(t) == pc[t] = "load" /\ pc'[t] # "load"

ReadsLocal(t, f) ==
    /\ pc'[t] = "clean" /\ loc'[t] # 0
    /\ heap'[loc'[t]].src = f /\ heap'[loc'[t]].rows = RawOf(f)
    /\ heap'[loc'[t]].stage = 0

ContactsRemote(t) ==
    \/ pc'[t] = "clean" /\ loc'[t] # 0 /\ heap'[loc'[t]].src = Remote
    \/ pc'[t] = "failed" /\ err'[t] = "ExportError"

RaisesNoData(t) ==
    pc'[t] = "failed" /\ err'[t] = "FileNotFoundError" /\ loc'[t] = 0

CsvPresent == {f \in files : dirExists /\ endswith(f, dot_csv)}

SourceOrder(remoteConfigured) ==
    \A t \in Threads :
        LoadStep(t) =>
            IF CsvPresent # {}
            THEN /\ \E f \in CsvPresent :
                       /\ \A g \in CsvPresent \ {f} : LexLess(f, g)
                       /\ ReadsLocal(t, f)
                 /\ ~ContactsRemote(t)
            ELSE IF remoteConfigured THEN ContactsRemote(t)
            ELSE RaisesNoData(t)

\* C4 as stated: the first csv file of the input directory wins and the
\* remote source is not contacted; else, with endpoint, token and table
\* identifier configured, the remote export is fetched; else _load raises the
\* data-unavailable error and yields no table.
SourceOrderAsStated ==
    [][SourceOrder(cfg.KBC_URL # "" /\ cfg.KBC_TOKEN # "" /\ cfg.TABLE_ID # "")]_vars

\* C4 as amended: the same, but the remote branch is taken whenever the token
\* and the table identifier are non-empty; the endpoint is not examined.
SourceOrderAmended ==
    [][SourceOrder(cfg.KBC_TOKEN # "" /\ cfg.TABLE_ID # "")]_vars

\* C4, witness: _load has just read a.csv out of a directory that also holds
\* a.txt and ab.csv, with the Storage API configured as well.
SourceOrderWitness ==
    /\ pc[1] = "clean" /\ heap[loc[1]].stage = 0 /\ heap[loc[1]].src = a_csv
    /\ files = {a_csv, ab_csv, a_txt}
    /\ cfg.KBC_TOKEN # "" /\ cfg.TABLE_ID # ""

(***************************************************************************)
(* Properties of the query layer.                                          *)
(***************************************************************************)
RECURSIVE Concat(_)
Concat(ss) == IF ss = <<>> THEN <<>> ELSE ss[1] \o Concat(Tail(ss))

\* C5: pagination covers the filtered set exactly once.  The rows of pages
\* 1..total_pages of one listing, put one after the other, hold every row of
\* the filtered set once and no other row, and each response row is the
\* display form of its table row.
PagesCover ==
    res.op = "pages" =>
        LET all == Concat([p \in 1..Len(res.out) |-> res.out[p].idx]) IN
        /\ \A p \in 1..Len(res.out) :
              /\ ~res.out[p].error
              /\ res.out[p].page = p
              /\ Len(res.out[p].idx) <= res.per_page
              /\ res.out[p].rows =
                    [j \in 1..Len(res.out[p].idx) |-> Display(df[res.out[p].idx[j]])]
        /\ Len(all) = Cardinality(res.filtered)
        /\ {all[j] : j \in 1..Len(all)} = res.filtered

\* C5, witness: three filtered rows on two pages of two, sorted by class
\* downwards, so that the pages do not follow the table's order.
PagesCoverWitness ==
    /\ res.op = "pages"
    /\ Len(res.out) = 2 /\ res.per_page = 2
    /\ Cardinality(res.filtered) = 3
    /\ res.sort_by = "Pclass" /\ res.sort_dir = "desc"
    /\ res.out[1].idx # <<1, 2>>

\* C6: page clamping.  A listing with well-formed filters never raises;
\* total_pages is the least k >= 1 with k * per_page >= total; the reported
\* page is the requested one, or total_pages when that is smaller; a page
\* beyond the last returns the rows of the last page.
PageClamp ==
    res.op = "passengers" =>
        LET o == res.out IN
        /\ ~o.error
        /\ res.page >= 1 /\ res.per_page \in 1..PerPageLimit
        /\ o.total_pages >= 1
        /\ o.total_pages * res.per_page >= o.total
        /\ (o.total_pages > 1 => (o.total_pages - 1) * res.per_page < o.total)
        /\ o.page = (IF res.page <= o.total_pages THEN res.page ELSE o.total_pages)
        /\ o.page \in 1..o.total_pages
        /\ (res.page >= o.total_pages =>
               Len(o.idx) = o.total - (o.total_pages - 1) * res.per_page)

\* C6, witness: page 3 is asked of a listing of three rows in two pages.
PageClampWitness ==
    /\ res.op = "passengers"
    /\ res.page = 3 /\ res.per_page = 2
    /\ res.out.total = 3 /\ res.out.total_pages = 2 /\ res.out.page = 2
    /\ Len(res.out.idx) = 1

FaresAscend(points) ==
    \A j \in 1..(Len(points) - 1) : points[j].fare <= points[j + 1].fare

\* C7 as stated: heatmap returns at most min(n, 500) points for every n it
\* accepts, their fares non-decreasing.
HeatmapBoundAsStated ==
    res.op = "heatmap" =>
        /\ Len(res.out.out) <= Min(res.n, HeatmapLimit)
        /\ FaresAscend(res.out.out)

\* C7 as amended: heatmap returns at most max(0, min(n, 500)) points (the
\* endpoint accepts n < 0 and then returns no point), their fares
\* non-decreasing.
HeatmapBoundAmended ==
    res.op = "heatmap" =>
        /\ ~res.out.error
        /\ res.n <= HeatmapLimit
        /\ Len(res.out.out) <= Max(0, Min(res.n, HeatmapLimit))
        /\ FaresAscend(res.out.out)

\* C7, witness: two points sampled out of three rows with a fare, one of
\* them a fare that rounding changes.
HeatmapBoundWitness ==
    /\ res.op = "heatmap" /\ res.n = 2
    /\ Cardinality({i \in Indices(df) : notna(df[i].Fare)}) = 3
    /\ Len(res.out.out) = 2
    /\ res.out.out[1].fare < res.out.out[2].fare
    /\ \E i \in Indices(df) : notna(df[i].Fare) /\ df[i].Fare.v % 10 # 0

SumPct(entries) == SumSeq([j \in 1..Len(entries) |-> entries[j].pct])

\* C8 as stated: the pct values of the entries of by_port sum to at most 100.
PortPctAsStated == res.op = "by_port" => SumPct(res.out.out) <= 100

\* C8 as amended: each pct is the group's share of the full table in percent,
\* rounded to the nearest integer (within one half of the share); the counts
\* of the entries sum to at most the table size; hence the pct values sum to
\* at most 100 plus half the number of entries, and they can exceed 100.
PortPctAmended ==
    res.op = "by_port" =>
        LET es == res.out.out IN
        /\ ~res.out.error
        /\ \A j \in 1..Len(es) :
              /\ es[j].count =
                    Cardinality({i \in Indices(df) :
                                    df[i].Embarked.k = "str" /\ df[i].Embarked.s = es[j].port})
              /\ es[j].count >= 1
              /\ 2 * (es[j].pct * Len(df) - 100 * es[j].count) <= Len(df)
              /\ 2 * (100 * es[j].count - es[j].pct * Len(df)) <= Len(df)
        /\ SumSeq([j \in 1..Len(es) |-> es[j].count]) <= Len(df)
        /\ 2 * SumPct(es) <= 200 + Len(es)

\* C8, witness: six passengers, one, one and four of them from three ports:
\* 17 + 17 + 67 = 101.
PortPctWitness ==
    /\ res.op = "by_port"
    /\ Len(df) = 6 /\ Len(res.out.out) = 3
    /\ SumPct(res.out.out) = 101

\* the bin the claim gives an age (in years * Scale): closed on the left
BinAsStated(a) ==
    CASE 0 <= a /\ a < 12 * Scale -> 1
      [] 12 * Scale <= a /\ a < 18 * Scale -> 2
      [] 18 * Scale <= a /\ a < 35 * Scale -> 3
      [] 35 * Scale <= a /\ a < 60 * Scale -> 4
      [] OTHER -> 5

\* the bin the code gives it: closed on the right, nothing at 0 or over 120
BinAmended(a) ==
    CASE 0 < a /\ a <= 12 * Scale -> 1
      [] 12 * Scale < a /\ a <= 18 * Scale -> 2
      [] 18 * Scale < a /\ a <= 35 * Scale -> 3
      [] 35 * Scale < a /\ a <= 60 * Scale -> 4
      [] 60 * Scale < a /\ a <= 120 * Scale -> 5
      [] OTHER -> 0

AgeBins(bin(_)) ==
    res.op = "by_age_group" =>
        LET o == res.out IN
        /\ {o.d2[j] : j \in 1..Len(o.d2)} = {i \in Indices(df) : notna(df[i].Age)}
        /\ \A j \in 1..Len(o.d2) : o.grp[j] = bin(df[o.d2[j]].Age.v)
        /\ ~o.error =>
              \A b \in 1..5 :
                 LET n == Cardinality({i \in Indices(df) :
                                          notna(df[i].Age) /\ bin(df[i].Age.v) = b})
                 IN  IF n = 0
                     THEN \A j \in 1..Len(o.out) : o.out[j].group # labels[b]
                     ELSE \E j \in 1..Len(o.out) :
                             o.out[j].group = labels[b] /\ o.out[j].total = n

ClassCount(cls) ==
    Cardinality({i \in Indices(df) : df[i].Pclass = I64(cls)})

ClassSurvivors(cls) ==
    Cardinality({i \in Indices(df) : df[i].Pclass = I64(cls) /\ df[i].Survived = I64(1)})

ClassBreakdownHolds ==
    LET es == res.out.out IN
    /\ ~res.out.error
    /\ \A cls \in 1..3 :
          IF ClassCount(cls) = 0
          THEN \A j \in 1..Len(es) : es[j].class # cls
          ELSE \E j \in 1..Len(es) :
                  /\ es[j].class = cls
                  /\ es[j].total = ClassCount(cls)
                  /\ es[j].survived = ClassSurvivors(cls)
    /\ \A j \in 1..(Len(es) - 1) : es[j].class < es[j + 1].class
    /\ SumSeq([j \in 1..Len(es) |-> es[j].total]) <= Len(df)
    /\ ( /\ Len(df) = 3
         /\ [i \in 1..3 |-> df[i].Pclass] = <<I64(1), I64(1), I64(3)>>
         /\ [i \in 1..3 |-> df[i].Survived] = <<I64(1), I64(0), I64(1)>>
         => es = << [class |-> 1, label |-> "1st Class", total |-> 2,
                     survived |-> 1, pct |-> 50],
                    [class |-> 3, label |-> "3rd Class", total |-> 1,
                     survived |-> 1, pct |-> 100] >> )

\* C10: class breakdown.  For every table by_class returns one entry for each
\* class of 1, 2, 3 that has a row and none for a class without rows, in
\* ascending class order, total the number of rows of the class and survived
\* the number of them with survived = 1; the totals sum to at most the table
\* size; classes [1,1,3] with survived [1,0,1] give class 1 {2, 1, 50} and
\* class 3 {1, 1, 100}.
ClassBreakdown == res.op = "by_class" => ClassBreakdownHolds

\* What by_class does satisfy: all of the above whenever it returns.
ClassBreakdownWhenReturned ==
    (res.op = "by_class" /\ ~res.out.error) => ClassBreakdownHolds

\* C11: summary counts add up.  For every table, tables with null survived
\* values included, stats returns, its total is the number of rows of the
\* table, and survivors + lost = total.
SummaryAddsUp ==
    res.op = "stats" =>
        /\ ~res.out.error
        /\ res.out.total = Len(df)
        /\ res.out.survivors + res.out.lost = res.out.total

\* C11, witness: stats has answered for a table of three rows, one of them
\* without a survival value, one a survivor and one lost.
SummaryAddsUpWitness ==
    /\ res.op = "stats" /\ Len(df) = 3
    /\ \E i, j, k \in Indices(df) :
          df[i].Survived = Null /\ df[j].Survived = I64(1) /\ df[k].Survived = I64(0)
    /\ res.out.survivors = 1 /\ res.out.lost = 2

\* C12: empty-table summary.  On a table with zero rows stats raises nothing
\* and returns total = 0, survivors = 0, lost = 0, survival rate 0 and null
\* for the average age, the average fare and the maximum fare.
EmptySummary ==
    (res.op = "stats" /\ Len(df) = 0) =>
        /\ ~res.out.error
        /\ res.out.total = 0 /\ res.out.survivors = 0 /\ res.out.lost = 0
        /\ res.out.surv_rate = 0
        /\ res.out.avg_age = Null /\ res.out.avg_fare = Null
        /\ res.out.max_fare = Null

\* C12, witness: stats has answered for the table without rows.
EmptySummaryWitness == res.op = "stats" /\ df = <<>> /\ ~res.out.error

PortCell(name) == Str(name)

\* C13 as stated: normalization maps the raw port "S" to "Southampton", "C"
\* to "Cherbourg" and "Q" to "Queenstown", leaves every other non-null value
\* unchanged and null null; the remap applied a second time changes nothing.
PortRemapAsStated ==
    /\ res.op = "clean" =>
          \A i \in 1..Len(df) :
             LET raw == df[i].Embarked
                 out == res.out[i].Embarked
             IN  CASE raw = Str(<<"S">>) -> out = PortCell(Southampton)
                   [] raw = Str(<<"C">>) ->
                         out = Str(<<"C", "h", "e", "r", "b", "o", "u", "r", "g">>)
                   [] raw = Str(<<"Q">>) ->
                         out = Str(<<"Q", "u", "e", "e", "n", "s", "t", "o", "w", "n">>)
                   [] OTHER -> out = raw
    /\ res.op = "remap_again" => res.out = res.before

\* C13 as amended: normalization maps a raw port that is "S", "C" or "Q"
\* once the blanks around it are removed to "Southampton", "Cherbourg" and
\* "Queenstown", leaves every other non-null value exactly as it is (its
\* blanks included) and null null; the remap applied a second time changes
\* nothing.
PortRemapAmended ==
    /\ res.op = "clean" =>
          /\ Len(res.out) = Len(df)
          /\ \A i \in 1..Len(df) :
                LET raw == df[i].Embarked
                    out == res.out[i].Embarked
                IN  IF raw = Null THEN out = Null
                    ELSE CASE Strip(raw.s) = <<"S">> -> out = PortCell(Southampton)
                           [] Strip(raw.s) = <<"C">> ->
                                 out = Str(<<"C", "h", "e", "r", "b", "o", "u", "r", "g">>)
                           [] Strip(raw.s) = <<"Q">> ->
                                 out = Str(<<"Q", "u", "e", "e", "n", "s", "t", "o", "w", "n">>)
                           [] OTHER -> out = raw
    /\ res.op = "remap_again" => res.out = res.before

\* C13, witness: a frame with the raw ports "S" and " S" has been normalized,
\* both to "Southampton", and remapped again.
PortRemapWitness ==
    /\ res.op = "remap_again" /\ Len(df) = 2
    /\ df[1].Embarked = Str(<<"S">>) /\ df[2].Embarked = Str(<<" ", "S">>)
    /\ res.out[1].Embarked = PortCell(Southampton)
    /\ res.out[2].Embarked = PortCell(Southampton)

\* C14: queries are read-only.  Once the table is loaded, no call of health,
\* stats, by_class, by_gender, by_port, by_age_group, heatmap or passengers,
\* whatever its parameters, changes the table: its rows, their order and
\* their column values stay as normalization left them.
QueriesReadOnly == [][df' = df]_vars

\* C14, witness: by_age_group has assigned its grp column for a table of two
\* rows with an age, and the table has no such column.
QueriesReadOnlyWitness ==
    /\ res.op = "by_age_group"
    /\ Len(df) = 2 /\ Len(res.out.d2) = 2
    /\ res.out.grp[1] = 1 /\ res.out.grp[2] = 5
    /\ AssignGrp(df).d2[2].grp = 5
    /\ \A i \in Indices(df) : "grp" \notin DOMAIN df[i]

\* C15: the listing is repeatable.  Two calls of passengers with identical
\* query, filters, sort, page and page size return identical results (total,
\* page, total_pages, the rows and their order), whatever ran between them.
ListingRepeatable ==
    [][(res.op = "listing" /\ res'.op = "listing") => res'.out = res.out]_vars

\* C16: nulls sort last in both directions.  When passengers sorts by a real
\* column, in the listing read page after page every row without a value in
\* that column comes after every row with one, for asc and for desc alike,
\* and the rows with a value are in ascending respectively descending order
\* of it.
NullsSortLast ==
    (res.op = "pages" /\ res.sort_by \in Columns) =>
        LET all    == Concat([p \in 1..Len(res.out) |-> res.out[p].idx])
            val(j) == df[all[j]][res.sort_by]
        IN  \A a, b \in 1..Len(all) :
               a < b =>
                  /\ ~notna(val(a)) => ~notna(val(b))
                  /\ (notna(val(a)) /\ notna(val(b))) =>
                        IF res.sort_dir = "asc" THEN val(a).v <= val(b).v
                        ELSE val(a).v >= val(b).v

\* C16, witness: a listing sorted downwards by fare over a row without a fare
\* and two rows with different fares, the row without a fare first in the
\* table and last in the listing.
NullsSortLastWitness ==
    /\ res.op = "pages" /\ res.sort_by = "Fare" /\ res.sort_dir = "desc"
    /\ Cardinality(res.filtered) = 3
    /\ df[1].Fare = Null /\ df[2].Fare = Num(7250) /\ df[3].Fare = Num(13000)
    /\ Concat([p \in 1..Len(res.out) |-> res.out[p].idx]) = <<3, 2, 1>>

\* a call of get_df by thread t ends with an exception in this step
LoadRaises(t) == pc[t] \in {"load", "clean"} /\ pc'[t] = "failed"

\* what holds of a failed load: the exception reaches the caller and the
\* step leaves the cache as it was; a call that finds the cache empty goes
\* to _load; health answers a failure with status "error" and the message
FailureHandled ==
    /\ \A t \in Threads :
          LoadRaises(t) => (err'[t] # "" /\ cache' = cache /\ ret'[t] = 0)
    /\ \A t \in Threads :
          (pc[t] = "idle" /\ pc'[t] # "idle" /\ cache = 0) => pc'[t] = "load"
    /\ \A t \in Threads :
          (pc[t] = "failed" /\ pc'[t] = "idle" /\ res' # res) =>
              /\ res'.op = "health"
              /\ res'.out.status = "error"
              /\ res'.out.error = err[t]

\* C17: a failed load is not cached.  When _load raises inside get_df the
\* error propagates to the caller and the cache stays empty, so the cache
\* only ever changes from empty to a complete table and never back; a later
\* get_df call attempts the load again, and health reports status "error"
\* for such a failure instead of raising.
FailedLoadNotCached ==
    [][ /\ FailureHandled
        /\ cache' # cache => (cache = 0 /\ cache' # 0 /\ Complete(cache')) ]_vars

\* What the code does satisfy: all of it, except that the cache may change
\* from one complete table to another; it never holds an incomplete table
\* and never becomes empty again.
FailedLoadNotCachedButReplaced ==
    [][ /\ FailureHandled
        /\ cache' # cache => (cache' # 0 /\ Complete(cache')) ]_vars

====
